---- MODULE Spec2Model ----
(***************************************************************************)
(* Asset Administration Shell framework: the entity model and the SQLite   *)
(* repository of src/src/aas/aas_core.py and the dashboard connector of    *)
(* src/src/dashboard/aas_integration.py.                                   *)
(*                                                                         *)
(* Representation.  Text that the code only compares for equality is a     *)
(* TLA+ string.  Shell identifiers, on which the code also takes suffixes, *)
(* are sequences of segments ("urn:aas:robot:R47" is <<"urn","R47">>).     *)
(* An Optional value is a sequence of length 0 (None) or 1.  A datetime is *)
(* a number of clock ticks.  An element value carries its Python type in   *)
(* `kind`; the field of that kind holds the value, the others are unused.  *)
(***************************************************************************)
EXTENDS Integers, Sequences, FiniteSets, TLC

VARIABLES
    aas_table,        \* rows of table aas, in rowid (insertion) order
    submodels_table,  \* rows of table submodels (primary key id)
    now,              \* the value datetime.now() returns
    shell,            \* the AssetAdministrationShell objects callers hold: the one
                      \* object SpecShell follows, one per caller in SpecWriters
    written,          \* history: per id, the shell of the last successful write
    ret               \* the last call: its name, argument, result and the
                      \* exception it caught

vars == <<aas_table, submodels_table, now, shell, written, ret>>

\* ------------------------------------------------------------------ bounds

MaxClock == 1        \* the clock of Spec stops here
MaxShellClock == 3   \* the clock of SpecShell stops here

\* ------------------------------------------------------- values and inputs

None == <<>>
Some(x) == <<x>>

\* class AssetStatus(str, Enum): member name -> value
AssetStatus == {"ACTIVE", "MAINTENANCE", "OFFLINE", "ERROR"}

AssetStatusValue(member) ==
    CASE member = "ACTIVE" -> "active"
      [] member = "MAINTENANCE" -> "maintenance"
      [] member = "OFFLINE" -> "offline"
      [] member = "ERROR" -> "error"

StatusValues == {AssetStatusValue(m) : m \in AssetStatus}

\* AssetStatus(value): the member whose value is `value`; ValueError otherwise
IsStatusValue(value) == value \in StatusValues

AssetStatusOf(value) == CHOOSE m \in AssetStatus : AssetStatusValue(m) = value

StrVal(s) == [kind |-> "str", s |-> s, n |-> 0, b |-> FALSE]
IntVal(n) == [kind |-> "int", s |-> "", n |-> n, b |-> FALSE]
FloatVal(n) == [kind |-> "float", s |-> "", n |-> n, b |-> FALSE]
BoolVal(b) == [kind |-> "bool", s |-> "", n |-> 0, b |-> b]

\* SubmodelElement(id_short, value, value_type, description) built at time t
SubmodelElement(id_short, value, value_type, t) ==
    [id_short |-> id_short, value |-> value, value_type |-> value_type,
     description |-> None, last_updated |-> t]

\* Submodel(id, id_short, description) with no element
Submodel(id, id_short, description) ==
    [id |-> id, id_short |-> id_short, semantic_id |-> None,
     description |-> description, elements |-> <<>>]

\* Submodel.add_element: self.elements[element.id_short] = element
add_element(sm, element) ==
    [sm EXCEPT !.elements =
        [k \in (DOMAIN sm.elements) \cup {element.id_short} |->
            IF k = element.id_short THEN element ELSE sm.elements[k]]]

\* AssetAdministrationShell(id, id_short, ...): created and last_modified
\* default to datetime.now(), submodels to {}
AssetAdministrationShell(id, id_short, description, status, t) ==
    [id |-> id, id_short |-> id_short, global_asset_id |-> None,
     description |-> description, status |-> status,
     created |-> t, last_modified |-> t, submodels |-> <<>>]

\* AssetAdministrationShell.add_submodel
add_submodel(aas, sm, t) ==
    [aas EXCEPT
        !.submodels = [k \in (DOMAIN aas.submodels) \cup {sm.id_short} |->
                          IF k = sm.id_short THEN sm ELSE aas.submodels[k]],
        !.last_modified = t]

\* mutant: the time goes to created instead of last_modified
update_status_StampsCreated(aas, new_status, t) ==
    [aas EXCEPT !.status = new_status, !.created = t]

\* AssetAdministrationShell.update_status
update_status(aas, new_status, t) ==
    [aas EXCEPT !.status = new_status, !.last_modified = t]

\* ------------------------------------------------------------------- codec

\* datetime.isoformat() and its parse: the text form of a datetime
isoformat(t) == [iso |-> t]
fromisoformat(text) == text.iso

\* JSON form of an element value (Union[str, int, float, bool]): a string, a
\* number written without or with a fraction part, or true / false
DumpValue(v) ==
    CASE v.kind = "str" -> [json |-> "string", s |-> v.s, n |-> 0, frac |-> FALSE]
      [] v.kind = "int" -> [json |-> "number", s |-> "", n |-> v.n, frac |-> FALSE]
      [] v.kind = "float" -> [json |-> "number", s |-> "", n |-> v.n, frac |-> TRUE]
      [] v.kind = "bool" ->
           [json |-> IF v.b THEN "true" ELSE "false", s |-> "", n |-> 0, frac |-> FALSE]

\* mutant: every JSON number is read as a float
LoadValue_NumberAsFloat(j) ==
    CASE j.json = "string" -> StrVal(j.s)
      [] j.json = "number" -> FloatVal(j.n)
      [] j.json = "true" -> BoolVal(TRUE)
      [] j.json = "false" -> BoolVal(FALSE)

\* json.loads of a scalar, then validation against Union[str, int, float, bool]
LoadValue(j) ==
    CASE j.json = "string" -> StrVal(j.s)
      [] j.json = "number" /\ ~j.frac -> IntVal(j.n)
      [] j.json = "number" /\ j.frac -> FloatVal(j.n)
      [] j.json = "true" -> BoolVal(TRUE)
      [] j.json = "false" -> BoolVal(FALSE)

DumpElement(e) ==
    [id_short |-> e.id_short, value |-> DumpValue(e.value),
     value_type |-> e.value_type, description |-> e.description,
     last_updated |-> isoformat(e.last_updated)]

LoadElement(j) ==
    [id_short |-> j.id_short, value |-> LoadValue(j.value),
     value_type |-> j.value_type, description |-> j.description,
     last_updated |-> fromisoformat(j.last_updated)]

\* Submodel.model_dump_json()
DumpSubmodel(sm) ==
    [id |-> sm.id, id_short |-> sm.id_short, semantic_id |-> sm.semantic_id,
     description |-> sm.description,
     elements |-> [k \in DOMAIN sm.elements |-> DumpElement(sm.elements[k])]]

LoadSubmodel(j) ==
    [id |-> j.id, id_short |-> j.id_short, semantic_id |-> j.semantic_id,
     description |-> j.description,
     elements |-> [k \in DOMAIN j.elements |-> LoadElement(j.elements[k])]]

\* AssetAdministrationShell.model_dump_json(): status as its value, datetimes
\* as ISO text
model_dump_json(aas) ==
    [id |-> aas.id, id_short |-> aas.id_short,
     global_asset_id |-> aas.global_asset_id, description |-> aas.description,
     status |-> AssetStatusValue(aas.status),
     created |-> isoformat(aas.created),
     last_modified |-> isoformat(aas.last_modified),
     submodels |-> [k \in DOMAIN aas.submodels |-> DumpSubmodel(aas.submodels[k])]]

\* AssetAdministrationShell(**json.loads(data))
LoadShell(data) ==
    [id |-> data.id, id_short |-> data.id_short,
     global_asset_id |-> data.global_asset_id, description |-> data.description,
     status |-> AssetStatusOf(data.status),
     created |-> fromisoformat(data.created),
     last_modified |-> fromisoformat(data.last_modified),
     submodels |-> [k \in DOMAIN data.submodels |-> LoadSubmodel(data.submodels[k])]]

\* -------------------------------------------------------------- repository

Range(seq) == {seq[i] : i \in DOMAIN seq}
Range2(f) == {f[k] : k \in DOMAIN f}

\* the row INSERT INTO aas writes
AasRow(aas) ==
    [id |-> aas.id, id_short |-> aas.id_short,
     global_asset_id |-> aas.global_asset_id, description |-> aas.description,
     status |-> AssetStatusValue(aas.status),
     created |-> isoformat(aas.created),
     last_modified |-> isoformat(aas.last_modified),
     data |-> model_dump_json(aas)]

\* the row INSERT INTO submodels writes
SubmodelRow(aas, sm) ==
    [id |-> sm.id, aas_id |-> aas.id, id_short |-> sm.id_short,
     semantic_id |-> sm.semantic_id, description |-> sm.description,
     data |-> DumpSubmodel(sm)]

SubmodelRows(aas) == {SubmodelRow(aas, aas.submodels[k]) : k \in DOMAIN aas.submodels}

\* mutant: the UNIQUE constraint on id_short is missing
AasInsertAllowed_IdOnly(table, aas) ==
    \A i \in DOMAIN table : table[i].id # aas.id

\* aas: id TEXT PRIMARY KEY, id_short TEXT UNIQUE
AasInsertAllowed(table, aas) ==
    \A i \in DOMAIN table : table[i].id # aas.id /\ table[i].id_short # aas.id_short

\* submodels: id TEXT PRIMARY KEY, over the rows present and the rows this
\* call inserts
SubmodelInsertAllowed(rows, aas) ==
    /\ \A k \in DOMAIN aas.submodels : \A r \in rows : r.id # aas.submodels[k].id
    /\ \A k1, k2 \in DOMAIN aas.submodels :
          aas.submodels[k1].id = aas.submodels[k2].id => k1 = k2

\* the constraint the IntegrityError of create_aas names ("" when none fails)
CreateError(table, rows, aas) ==
    IF \E i \in DOMAIN table : table[i].id_short = aas.id_short
    THEN "UNIQUE constraint failed: aas.id_short"
    ELSE IF \E i \in DOMAIN table : table[i].id = aas.id
    THEN "UNIQUE constraint failed: aas.id"
    ELSE IF ~SubmodelInsertAllowed(rows, aas)
    THEN "UNIQUE constraint failed: submodels.id"
    ELSE ""

\* AASRepository.create_aas: one transaction; an IntegrityError rolls all of
\* it back and the call returns False
create_aas(table, rows, aas) ==
    IF AasInsertAllowed(table, aas) /\ SubmodelInsertAllowed(rows, aas)
    THEN [ok |-> TRUE, err |-> "", aas |-> Append(table, AasRow(aas)),
          submodels |-> rows \cup SubmodelRows(aas)]
    ELSE [ok |-> FALSE, err |-> CreateError(table, rows, aas),
          aas |-> table, submodels |-> rows]

\* AASRepository.get_aas: SELECT data FROM aas WHERE id = ?
get_aas(table, aas_id) ==
    IF \E i \in DOMAIN table : table[i].id = aas_id
    THEN Some(LoadShell(table[CHOOSE i \in DOMAIN table : table[i].id = aas_id].data))
    ELSE None

\* AASRepository.list_all_aas: SELECT data FROM aas
list_all_aas(table) == [i \in DOMAIN table |-> LoadShell(table[i].data)]

\* mutant: the status column is left as the previous writer set it
UpdatedRow_KeepsStatus(row, aas) ==
    [row EXCEPT !.id_short = aas.id_short,
                !.global_asset_id = aas.global_asset_id,
                !.description = aas.description,
                !.last_modified = isoformat(aas.last_modified),
                !.data = model_dump_json(aas)]

\* UPDATE aas SET ... WHERE id=?: the row after the update (created is not
\* among the columns set)
UpdatedRow(row, aas) ==
    [row EXCEPT !.id_short = aas.id_short,
                !.global_asset_id = aas.global_asset_id,
                !.description = aas.description,
                !.status = AssetStatusValue(aas.status),
                !.last_modified = isoformat(aas.last_modified),
                !.data = model_dump_json(aas)]

\* mutant: last_modified is set from the shell's created, not from the clock
update_aas_StampFromCreated(table, aas0, t) ==
    LET aas == [aas0 EXCEPT !.last_modified = aas0.created]
        hit == {i \in DOMAIN table : table[i].id = aas.id}
        clash == \E i \in hit : \E j \in DOMAIN table :
                    j # i /\ table[j].id_short = aas.id_short
    IN  IF hit = {} THEN [ok |-> FALSE, err |-> "", aas |-> table, obj |-> aas]
        ELSE IF clash
        THEN [ok |-> FALSE, err |-> "UNIQUE constraint failed: aas.id_short",
              aas |-> table, obj |-> aas]
        ELSE [ok |-> TRUE, err |-> "",
              aas |-> [i \in DOMAIN table |->
                          IF i \in hit THEN UpdatedRow(table[i], aas) ELSE table[i]],
              obj |-> aas]

\* AASRepository.update_aas.  aas.last_modified = datetime.now() comes first
\* and stays on the caller's object whatever the outcome; no row with the id
\* gives rowcount 0; an id_short held by another row is an IntegrityError
update_aas(table, aas0, t) ==
    LET aas == [aas0 EXCEPT !.last_modified = t]
        hit == {i \in DOMAIN table : table[i].id = aas.id}
        clash == \E i \in hit : \E j \in DOMAIN table :
                    j # i /\ table[j].id_short = aas.id_short
    IN  IF hit = {} THEN [ok |-> FALSE, err |-> "", aas |-> table, obj |-> aas]
        ELSE IF clash
        THEN [ok |-> FALSE, err |-> "UNIQUE constraint failed: aas.id_short",
              aas |-> table, obj |-> aas]
        ELSE [ok |-> TRUE, err |-> "",
              aas |-> [i \in DOMAIN table |->
                          IF i \in hit THEN UpdatedRow(table[i], aas) ELSE table[i]],
              obj |-> aas]

\* --------------------------------------------------------------- connector

\* mutant: the token is not lowered
Lower_AsGiven(token) == token

\* str.lower() on the status tokens the callers pass
Lower(token) ==
    CASE token = "ACTIVE" -> "active"
      [] token = "Maintenance" -> "maintenance"
      [] token = "OFFLINE" -> "offline"
      [] token = "Error" -> "error"
      [] OTHER -> token

\* mutant: the whole id is compared
endswith_Whole(s, suffix) == s = suffix

\* str.endswith
endswith(s, suffix) ==
    /\ Len(suffix) <= Len(s)
    /\ SubSeq(s, Len(s) - Len(suffix) + 1, Len(s)) = suffix

\* the first of the matching indexes of a list, 0 when there is none
\* (for aas in all_aas: if ...: return)
FirstMatch(hits) ==
    IF hits = {} THEN 0 ELSE CHOOSE i \in hits : \A j \in hits : i <= j

\* mutant: the shell is found as get_asset_details finds it, by id_short or by
\* the end of its id
update_asset_status_MatchesSuffix(table, asset_id, new_status, t) ==
    LET all_aas == list_all_aas(table)
        i == FirstMatch({k \in DOMAIN all_aas :
                            \/ all_aas[k].id_short = asset_id
                            \/ endswith(all_aas[k].id, asset_id)})
    IN  IF i = 0
        THEN [ok |-> FALSE, err |-> "", aas |-> table, id |-> <<>>, obj |-> <<>>]
        ELSE IF ~IsStatusValue(Lower(new_status))
        THEN [ok |-> FALSE, err |-> "ValueError", aas |-> table,
              id |-> <<>>, obj |-> <<>>]
        ELSE LET status_enum == AssetStatusOf(Lower(new_status))
                 r == update_aas(table, update_status(all_aas[i], status_enum, t), t)
             IN  [ok |-> r.ok, err |-> r.err, aas |-> r.aas,
                  id |-> all_aas[i].id, obj |-> r.obj]

\* DashboardAASConnector.update_asset_status
update_asset_status(table, asset_id, new_status, t) ==
    LET all_aas == list_all_aas(table)
        i == FirstMatch({k \in DOMAIN all_aas : all_aas[k].id_short = asset_id})
    IN  IF i = 0
        THEN [ok |-> FALSE, err |-> "", aas |-> table, id |-> <<>>, obj |-> <<>>]
        ELSE IF ~IsStatusValue(Lower(new_status))
        THEN [ok |-> FALSE, err |-> "ValueError", aas |-> table,
              id |-> <<>>, obj |-> <<>>]
        ELSE LET status_enum == AssetStatusOf(Lower(new_status))
                 r == update_aas(table, update_status(all_aas[i], status_enum, t), t)
             IN  [ok |-> r.ok, err |-> r.err, aas |-> r.aas,
                  id |-> all_aas[i].id, obj |-> r.obj]

\* datetime.strftime("%Y-%m-%d %H:%M"): the datetime cut to its minute
TicksPerMinute == 2
strftime(t) == [minute |-> t \div TicksPerMinute]

\* description or id_short
NameOf(aas) == IF aas.description = None THEN aas.id_short ELSE <<aas.description[1]>>

ElementDetails(element) ==
    [value |-> element.value, type |-> element.value_type,
     description |-> element.description,
     last_updated |-> strftime(element.last_updated)]

\* DashboardAASConnector.get_asset_details
get_asset_details(table, asset_id) ==
    LET all_aas == list_all_aas(table)
        i == FirstMatch({k \in DOMAIN all_aas :
                            \/ all_aas[k].id_short = asset_id
                            \/ endswith(all_aas[k].id, asset_id)})
    IN  IF i = 0 THEN None
        ELSE LET aas == all_aas[i]
             IN  Some([asset_id |-> aas.id,
                       name |-> NameOf(aas),
                       status |-> AssetStatusValue(aas.status),
                       created |-> strftime(aas.created),
                       last_modified |-> strftime(aas.last_modified),
                       submodels |->
                          [sm \in DOMAIN aas.submodels |->
                             [e \in DOMAIN aas.submodels[sm].elements |->
                                ElementDetails(aas.submodels[sm].elements[e])]]])

\* whether aas.submodels[sm].elements[e] exists
HasElement(aas, sm, e) ==
    sm \in DOMAIN aas.submodels /\ e \in DOMAIN aas.submodels[sm].elements

\* value[:10] raises TypeError unless the value is a string
SliceRaises(v) == v.kind # "str"

\* value[:10] of a string: the date of an ISO date-time, a shorter string whole
Slice10(v) ==
    CASE v.s = "2024-09-15T10:00:00" -> "2024-09-15"
      [] v.s = "2024-12-15T10:00:00" -> "2024-12-15"
      [] OTHER -> v.s

\* str.title() on the status values
Title(value) ==
    CASE value = "active" -> "Active"
      [] value = "maintenance" -> "Maintenance"
      [] value = "offline" -> "Offline"
      [] value = "error" -> "Error"

\* f"{value}%": the value as text, then the sign
Percent(v) == [text |-> v, sign |-> "%"]

NotAvailable == "N/A"

\* the values get_assets_summary slices for one shell, in the order it reads them
SlicedValues(aas) ==
    (IF HasElement(aas, "Maintenance", "LastService")
     THEN <<aas.submodels["Maintenance"].elements["LastService"].value>> ELSE <<>>)
    \o (IF HasElement(aas, "Maintenance", "NextService")
        THEN <<aas.submodels["Maintenance"].elements["NextService"].value>> ELSE <<>>)

\* one entry of assets_data
SummaryRow(aas) ==
    [ID |-> aas.id_short,
     Name |-> NameOf(aas),
     Status |-> Title(AssetStatusValue(aas.status)),
     Last_Maintenance |->
        IF HasElement(aas, "Maintenance", "LastService")
        THEN Slice10(aas.submodels["Maintenance"].elements["LastService"].value)
        ELSE NotAvailable,
     Next_Service |->
        IF HasElement(aas, "Maintenance", "NextService")
        THEN Slice10(aas.submodels["Maintenance"].elements["NextService"].value)
        ELSE NotAvailable,
     Efficiency |->
        IF HasElement(aas, "Operation", "Efficiency")
        THEN Percent(aas.submodels["Operation"].elements["Efficiency"].value)
        ELSE [text |-> StrVal(NotAvailable), sign |-> ""]]

\* DashboardAASConnector.get_assets_summary; raised is the TypeError of a slice
\* leaving the call
get_assets_summary(table) ==
    LET all_aas == list_all_aas(table)
    IN  IF \E i \in DOMAIN all_aas :
              \E k \in DOMAIN SlicedValues(all_aas[i]) :
                  SliceRaises(SlicedValues(all_aas[i])[k])
        THEN [raised |-> TRUE, err |-> "TypeError", rows |-> <<>>]
        ELSE [raised |-> FALSE, err |-> "",
              rows |-> [i \in DOMAIN all_aas |-> SummaryRow(all_aas[i])]]

ElementValue(aas, sm, e) == aas.submodels[sm].elements[e].value

\* float(text): the strings that parse as a number, and their value
ParsesAsFloat(text) == text \in {"80"}
ParseFloat(text) == CASE text = "80" -> 80 [] OTHER -> 0

\* float(value) raises ValueError on a string that is no number
FloatRaises(v) == v.kind = "str" /\ ~ParsesAsFloat(v.s)
float(v) ==
    CASE v.kind = "str" -> ParseFloat(v.s)
      [] v.kind = "bool" -> IF v.b THEN 1 ELSE 0
      [] OTHER -> v.n

\* value > number raises TypeError on a string; a bool compares as 0 or 1
CompareRaises(v) == v.kind = "str"
Number(v) == IF v.kind = "bool" THEN (IF v.b THEN 1 ELSE 0) ELSE v.n

RECURSIVE SumSeq(_)
SumSeq(seq) == IF seq = <<>> THEN 0 ELSE Head(seq) + SumSeq(Tail(seq))

RECURSIVE Flatten(_)
Flatten(seqs) == IF seqs = <<>> THEN <<>> ELSE Head(seqs) \o Flatten(Tail(seqs))

CountStatus(list, status) == Cardinality({i \in DOMAIN list : list[i].status = status})

\* round(sum / len, 1) for whole-number inputs, in tenths: to the nearest
\* tenth, a tie (exact in binary: a quarter) to the even tenth
RoundTenths(sum, len) ==
    LET q == (10 * sum) \div len
        r == (10 * sum) % len
    IN  IF 2 * r < len THEN q
        ELSE IF 2 * r > len THEN q + 1
        ELSE IF q % 2 = 0 THEN q ELSE q + 1

\* DashboardAASConnector.get_system_metrics; raised is an exception leaving
\* the call
get_system_metrics(table) ==
    LET all_aas == list_all_aas(table)
        HasEff(aas) == HasElement(aas, "Operation", "Efficiency")
        effs == [i \in DOMAIN all_aas |->
                    IF HasEff(all_aas[i])
                    THEN <<ElementValue(all_aas[i], "Operation", "Efficiency")>>
                    ELSE <<>>]
        efficiencies == Flatten(effs)
    IN  IF \E i \in DOMAIN efficiencies : FloatRaises(efficiencies[i])
        THEN [raised |-> TRUE]
        ELSE [raised |-> FALSE,
              total_assets |-> Len(all_aas),
              active_assets |-> CountStatus(all_aas, "ACTIVE"),
              maintenance_assets |-> CountStatus(all_aas, "MAINTENANCE"),
              offline_assets |-> CountStatus(all_aas, "OFFLINE"),
              average_efficiency |->
                 IF efficiencies = <<>> THEN 0
                 ELSE RoundTenths(
                        SumSeq([i \in DOMAIN efficiencies |-> float(efficiencies[i])]),
                        Len(efficiencies))]

\* alert thresholds of get_maintenance_alerts
ServiceHoursAlert == 2000
ServiceHoursHigh == 2500
EfficiencyAlert == 85
TemperatureAlert == 60

Alert(aas, type, value, severity) ==
    [asset |-> aas.id_short, type |-> type, value |-> value, severity |-> severity]

\* the alerts one shell adds, in the order the rules are tested
ShellAlerts(aas) ==
    (IF HasElement(aas, "Maintenance", "ServiceHours")
        /\ Number(ElementValue(aas, "Maintenance", "ServiceHours")) > ServiceHoursAlert
     THEN LET hours == ElementValue(aas, "Maintenance", "ServiceHours")
          IN  <<Alert(aas, "maintenance", hours,
                      IF Number(hours) > ServiceHoursHigh THEN "high" ELSE "medium")>>
     ELSE <<>>)
    \o
    (IF HasElement(aas, "Operation", "Efficiency")
        /\ float(ElementValue(aas, "Operation", "Efficiency")) < EfficiencyAlert
     THEN <<Alert(aas, "performance",
                  ElementValue(aas, "Operation", "Efficiency"), "medium")>>
     ELSE <<>>)
    \o
    (IF HasElement(aas, "Operation", "Temperature")
        /\ float(ElementValue(aas, "Operation", "Temperature")) > TemperatureAlert
     THEN <<Alert(aas, "temperature",
                  ElementValue(aas, "Operation", "Temperature"), "high")>>
     ELSE <<>>)

\* whether a rule on this shell raises (hours > 2000 on a string, float() on a
\* string that is no number)
ShellAlertsRaise(aas) ==
    \/ HasElement(aas, "Maintenance", "ServiceHours")
       /\ CompareRaises(ElementValue(aas, "Maintenance", "ServiceHours"))
    \/ HasElement(aas, "Operation", "Efficiency")
       /\ FloatRaises(ElementValue(aas, "Operation", "Efficiency"))
    \/ HasElement(aas, "Operation", "Temperature")
       /\ FloatRaises(ElementValue(aas, "Operation", "Temperature"))

\* the exception the first raising rule of this shell raises
ShellAlertsError(aas) ==
    IF HasElement(aas, "Maintenance", "ServiceHours")
       /\ CompareRaises(ElementValue(aas, "Maintenance", "ServiceHours"))
    THEN "TypeError" ELSE "ValueError"

\* DashboardAASConnector.get_maintenance_alerts
get_maintenance_alerts(table) ==
    LET all_aas == list_all_aas(table)
        i == FirstMatch({k \in DOMAIN all_aas : ShellAlertsRaise(all_aas[k])})
    IN  IF i # 0
        THEN [raised |-> TRUE, err |-> ShellAlertsError(all_aas[i]), alerts |-> <<>>]
        ELSE [raised |-> FALSE, err |-> "",
              alerts |-> Flatten([j \in DOMAIN all_aas |-> ShellAlerts(all_aas[j])])]

\* ------------------------------------------------------------------ inputs

ID_R47 == <<"urn:aas:robot:", "R47">>
ID_L01 == <<"urn:aas:conveyor:", "L01">>
Ids == {ID_R47, ID_L01}

\* constructor arguments (id, id_short, description, status) the callers use:
\* the two sample assets, and one that reuses the id of the second and the
\* id_short of the first
NewArgs ==
    { <<ID_R47, <<"Robot_R47">>, Some("Industrial Welding Robot"), "ACTIVE">>,
      <<ID_L01, <<"L01">>, None, "MAINTENANCE">>,
      <<ID_L01, <<"Robot_R47">>, None, "ACTIVE">> }

\* identities passed to update_asset_status: two id_shorts and an id suffix
Identities == {<<"Robot_R47">>, <<"L01">>, <<"R47">>}

\* status tokens passed to update_asset_status
Tokens == {"active", "Maintenance", "bogus"}

\* statuses passed to AssetAdministrationShell.update_status
NewStatuses == {"MAINTENANCE"}

\* a submodel built before the run (its elements' last_updated is 0), with an
\* element of each value kind
MixedSubmodel ==
    add_element(add_element(add_element(add_element(
        Submodel(<<"urn:submodel:operation:", "R47">>, "Operation",
                 Some("Current operational parameters")),
        SubmodelElement("CurrentTask", StrVal("welding"), "string", 0)),
        SubmodelElement("Load", IntVal(0), "int", 0)),
        SubmodelElement("Efficiency", FloatVal(80), "float", 0)),
        SubmodelElement("Running", BoolVal(TRUE), "bool", 0))

Submodels == {MixedSubmodel}

\* the shells a caller can hold at time t: just constructed or read from the
\* repository, then left alone or given a submodel
FreshShells(t) ==
    {AssetAdministrationShell(a[1], a[2], a[3], a[4], t) : a \in NewArgs}

LoadedShells(table) == Range(list_all_aas(table))

CallerShells(table, t) ==
    LET base == FreshShells(t) \cup LoadedShells(table)
    IN  base \cup {add_submodel(x, sm, t) : x \in base, sm \in Submodels}

\* ----------------------------------------------------------------- actions

Ret(op, arg, r, out) == [op |-> op, arg |-> arg, ok |-> r.ok, err |-> r.err, out |-> out]

Done == [ok |-> TRUE, err |-> ""]

Init ==
    /\ aas_table = <<>>
    /\ submodels_table = {}
    /\ now = 0
    /\ shell = None
    /\ written = [id \in Ids |-> None]
    /\ ret = Ret("init", <<>>, Done, <<>>)

\* the clock advances
TickTo(max) ==
    /\ now < max
    /\ now' = now + 1
    /\ ret' = Ret("tick", <<>>, Done, <<>>)
    /\ UNCHANGED <<aas_table, submodels_table, shell, written>>

Tick == TickTo(MaxClock)

\* repo.create_aas(aas)
CreateOf(aas) ==
    LET r == create_aas(aas_table, submodels_table, aas)
    IN  /\ aas_table' = r.aas
        /\ submodels_table' = r.submodels
        /\ written' = IF r.ok THEN [written EXCEPT ![aas.id] = Some(aas)] ELSE written
        /\ ret' = Ret("create_aas", <<>>, r, <<>>)
        /\ UNCHANGED now

\* repo.update_aas(aas)
UpdateOf(aas) ==
    LET r == update_aas(aas_table, aas, now)
    IN  /\ aas_table' = r.aas
        /\ written' = IF r.ok THEN [written EXCEPT ![aas.id] = Some(r.obj)] ELSE written
        /\ ret' = Ret("update_aas", <<>>, r, <<>>)
        /\ UNCHANGED <<now, submodels_table>>

Create == \E aas \in CallerShells(aas_table, now) : CreateOf(aas) /\ UNCHANGED shell

Update == \E aas \in CallerShells(aas_table, now) : UpdateOf(aas) /\ UNCHANGED shell

\* aas_connector.update_asset_status(asset_id, new_status)
UpdateAssetStatus ==
    \E asset_id \in Identities, token \in Tokens :
        LET r == update_asset_status(aas_table, asset_id, token, now)
        IN  /\ aas_table' = r.aas
            /\ written' = [id \in Ids |->
                             IF r.ok /\ r.id = id THEN Some(r.obj) ELSE written[id]]
            /\ ret' = Ret("update_asset_status", <<>>, r, <<>>)
            /\ UNCHANGED <<now, submodels_table, shell>>

Next ==
    \/ Tick
    \/ Create
    \/ Update
    \/ UpdateAssetStatus

Spec == Init /\ [][Next]_vars

\* ------------------------------------------------- one shell and its record

\* the shell is constructed at time 0
InitShell ==
    /\ aas_table = <<>>
    /\ submodels_table = {}
    /\ now = 0
    /\ shell \in {Some(AssetAdministrationShell(a[1], a[2], a[3], a[4], 0)) :
                     a \in NewArgs}
    /\ written = [id \in Ids |-> None]
    /\ ret = Ret("new", <<>>, Done, <<>>)

ShellTick == TickTo(MaxShellClock)

\* aas.add_submodel(submodel)
AddSubmodel ==
    /\ \E sm \in Submodels : shell' = Some(add_submodel(shell[1], sm, now))
    /\ ret' = Ret("add_submodel", <<>>, Done, <<>>)
    /\ UNCHANGED <<aas_table, submodels_table, now, written>>

\* aas.update_status(new_status)
SetStatus ==
    /\ \E st \in NewStatuses : shell' = Some(update_status(shell[1], st, now))
    /\ ret' = Ret("update_status", <<>>, Done, <<>>)
    /\ UNCHANGED <<aas_table, submodels_table, now, written>>

\* repo.create_aas(aas) with the shell
CreateShell == CreateOf(shell[1]) /\ UNCHANGED shell

\* repo.update_aas(aas) with the shell, whose last_modified it sets
UpdateShell ==
    /\ UpdateOf(shell[1])
    /\ shell' = Some(update_aas(aas_table, shell[1], now).obj)

NextShell ==
    \/ ShellTick
    \/ AddSubmodel
    \/ SetStatus
    \/ CreateShell
    \/ UpdateShell
    \/ UpdateAssetStatus

SpecShell == InitShell /\ [][NextShell]_vars

\* ---------------------------------------------------- connector read calls

\* constructor arguments of the seeded shells: every status, an id_short that
\* is the suffix of the other id, the description present and absent
SampleArgs ==
    { <<ID_R47, <<"Robot_R47">>, Some("Industrial Welding Robot"), "ACTIVE">>,
      <<ID_L01, <<"L01">>, None, "MAINTENANCE">>,
      <<ID_R47, <<"L01">>, None, "ERROR">>,
      <<ID_L01, <<"Conveyor_L01">>, None, "OFFLINE">> }

\* identities passed to get_asset_details: id_shorts, id suffixes, a whole id,
\* the empty string and one that matches nothing
DetailIdentities ==
    {<<"Robot_R47">>, <<"L01">>, <<"R47">>, ID_R47, <<>>, <<"nonexistent">>}

\* values of Maintenance/ServiceHours around the two thresholds, and a string,
\* each with a value of Maintenance/LastService: an ISO date-time, a short
\* string, a number
MaintenanceValues ==
    { <<IntVal(2000), StrVal("2024-09-15T10:00:00")>>,
      <<IntVal(2500), StrVal("n/a")>>,
      <<FloatVal(2501), IntVal(20240915)>>,
      <<StrVal("n/a"), StrVal("2024-09-15T10:00:00")>> }

\* values of Operation/Efficiency and Operation/Temperature around their
\* thresholds
OperationValues ==
    { <<FloatVal(84), FloatVal(61)>>, <<FloatVal(85), FloatVal(60)>>,
      <<StrVal("80"), IntVal(60)>>, <<StrVal("n/a"), BoolVal(TRUE)>> }

\* maintenance_sm of create_sample_factory_aas, for the asset with this id
SampleMaintenance(id, v) ==
    add_element(add_element(
        Submodel(<<"urn:submodel:maintenance:", id[2]>>, "Maintenance",
                 Some("Maintenance schedule and history")),
        SubmodelElement("LastService", v[2], "datetime", 0)),
        SubmodelElement("ServiceHours", v[1], "int", 0))

\* operation_sm of create_sample_factory_aas, for the asset with this id
SampleOperation(id, v) ==
    add_element(add_element(
        Submodel(<<"urn:submodel:operation:", id[2]>>, "Operation",
                 Some("Current operational parameters")),
        SubmodelElement("Efficiency", v[1], "float", 0)),
        SubmodelElement("Temperature", v[2], "float", 0))

\* the shells create_sample_factory_aas can build: constructed, then given
\* submodels or none; as there, the robot can get a Maintenance and an
\* Operation submodel, the conveyor an Operation submodel
SampleShells ==
    LET New(a) == AssetAdministrationShell(a[1], a[2], a[3], a[4], 0)
        WithM(a) == {New(a)} \cup
            {add_submodel(New(a), SampleMaintenance(a[1], h), 0) :
                h \in IF a[1] = ID_R47 THEN MaintenanceValues ELSE {}}
        WithO(x) == {x} \cup
            {add_submodel(x, SampleOperation(x.id, v), 0) : v \in OperationValues}
    IN  UNION {UNION {WithO(x) : x \in WithM(a)} : a \in SampleArgs}

\* init_sample_data: repo.create_aas(aas) for a sample shell
CreateSample == \E aas \in SampleShells : CreateOf(aas) /\ UNCHANGED shell

Returned == [ok |-> TRUE, err |-> ""]

\* aas_connector.get_asset_details(asset_id)
GetAssetDetails ==
    \E asset_id \in DetailIdentities :
        /\ ret' = Ret("get_asset_details", asset_id, Returned,
                      get_asset_details(aas_table, asset_id))
        /\ UNCHANGED <<aas_table, submodels_table, now, shell, written>>

\* aas_connector.get_assets_summary()
GetAssetsSummary ==
    LET out == get_assets_summary(aas_table)
    IN  /\ ret' = Ret("get_assets_summary", <<>>,
                      [ok |-> ~out.raised, err |-> out.err], out.rows)
        /\ UNCHANGED <<aas_table, submodels_table, now, shell, written>>

\* aas_connector.get_system_metrics()
GetSystemMetrics ==
    LET out == get_system_metrics(aas_table)
    IN  /\ ret' = Ret("get_system_metrics", <<>>,
                      [ok |-> ~out.raised,
                       err |-> IF out.raised THEN "ValueError" ELSE ""], out)
        /\ UNCHANGED <<aas_table, submodels_table, now, shell, written>>

\* aas_connector.get_maintenance_alerts()
GetMaintenanceAlerts ==
    LET out == get_maintenance_alerts(aas_table)
    IN  /\ ret' = Ret("get_maintenance_alerts", <<>>,
                      [ok |-> ~out.raised, err |-> out.err], out.alerts)
        /\ UNCHANGED <<aas_table, submodels_table, now, shell, written>>

NextDash ==
    \/ CreateSample
    \/ GetAssetDetails
    \/ GetAssetsSummary
    \/ GetSystemMetrics
    \/ GetMaintenanceAlerts

SpecDash == Init /\ [][NextDash]_vars

\* ------------------------------------------- two callers writing one store

\* the callers; each is between calls or holds the shell it took from
\* list_all_aas and has not yet written
Callers == {1, 2}

\* the shell a caller writes, from the one it read: with a new status
\* (update_asset_status), as it is, or with a submodel added (update)
StatusWrites(x, t) == {update_status(x, st, t) : st \in NewStatuses}

UpdateWrites(x, t) == {x} \cup {add_submodel(x, sm, t) : sm \in Submodels}

InitWriters ==
    /\ aas_table = <<>>
    /\ submodels_table = {}
    /\ now = 0
    /\ shell = [c \in Callers |-> None]
    /\ written = [id \in Ids |-> None]
    /\ ret = Ret("init", <<>>, Done, <<>>)

WritersTick == TickTo(MaxClock)

\* repo.create_aas(aas) of a shell just constructed
CreateFresh == \E aas \in FreshShells(now) : CreateOf(aas) /\ UNCHANGED shell

\* all_aas = self.repo.list_all_aas() and the choice of one shell of it
ListAll(c) ==
    /\ shell[c] = None
    /\ \E i \in DOMAIN aas_table :
          shell' = [shell EXCEPT ![c] = Some(list_all_aas(aas_table)[i])]
    /\ ret' = Ret("list_all_aas", <<c>>, Done, <<>>)
    /\ UNCHANGED <<aas_table, submodels_table, now, written>>

\* whether the record of the caller's shell is no longer what the caller read
Stale(c) == get_aas(aas_table, shell[c][1].id) # shell[c]

\* self.repo.update_aas(aas) of the shell x by caller c
WriteOf(c, op, x) ==
    LET r == update_aas(aas_table, x, now)
    IN  /\ aas_table' = r.aas
        /\ written' = IF r.ok THEN [written EXCEPT ![x.id] = Some(r.obj)] ELSE written
        /\ ret' = Ret(op, <<c>>, r, IF Stale(c) THEN <<"stale">> ELSE <<>>)
        /\ shell' = [shell EXCEPT ![c] = None]
        /\ UNCHANGED <<now, submodels_table>>

\* the rest of update_asset_status: aas.update_status and repo.update_aas
WriteStatus(c) ==
    /\ shell[c] # None
    /\ \E x \in StatusWrites(shell[c][1], now) : WriteOf(c, "update_asset_status", x)

\* repo.update_aas of the shell read, changed or not
WriteUpdate(c) ==
    /\ shell[c] # None
    /\ \E x \in UpdateWrites(shell[c][1], now) : WriteOf(c, "update_aas", x)

NextWriters ==
    \/ WritersTick
    \/ CreateFresh
    \/ \E c \in Callers : ListAll(c)
    \/ \E c \in Callers : WriteStatus(c)
    \/ \E c \in Callers : WriteUpdate(c)

SpecWriters == InitWriters /\ [][NextWriters]_vars

\* ------------------------------------- the connector with a single caller

\* the seeded shells: the four of SampleArgs, built before the run, each bare
\* or with a submodel
FrameShells ==
    LET New(a) == AssetAdministrationShell(a[1], a[2], a[3], a[4], 0)
    IN  UNION {{New(a)} \cup {add_submodel(New(a), sm, 0) : sm \in Submodels} :
               a \in SampleArgs}

FrameTick == TickTo(MaxClock)

\* repo.create_aas(aas) for a seeded shell
CreateSeed == \E aas \in FrameShells : CreateOf(aas) /\ UNCHANGED shell

\* aas_connector.update_asset_status(asset_id, new_status), the identity kept
\* with the result
SetAssetStatus ==
    \E asset_id \in Identities, token \in Tokens :
        LET r == update_asset_status(aas_table, asset_id, token, now)
        IN  /\ aas_table' = r.aas
            /\ written' = [id \in Ids |->
                             IF r.ok /\ r.id = id THEN Some(r.obj) ELSE written[id]]
            /\ ret' = Ret("update_asset_status", asset_id, r, <<>>)
            /\ UNCHANGED <<now, submodels_table, shell>>

NextFrame ==
    \/ FrameTick
    \/ CreateSeed
    \/ SetAssetStatus
    \/ GetAssetDetails
    \/ GetAssetsSummary
    \/ GetSystemMetrics
    \/ GetMaintenanceAlerts

SpecFrame == Init /\ [][NextFrame]_vars

\* ================================================================== claims

\* rows of the aas table that hold this id or this id_short
Taken(table, aas) ==
    \E i \in DOMAIN table : table[i].id = aas.id \/ table[i].id_short = aas.id_short

\* C1: create of a shell whose id or id_short a persisted shell already has
\* returns false and leaves the aas table and the submodels table as they
\* were.
C1_DuplicateCreateFails ==
    \A aas \in CallerShells(aas_table, now) :
        Taken(aas_table, aas) =>
            LET r == create_aas(aas_table, submodels_table, aas)
            IN  ~r.ok /\ r.aas = aas_table /\ r.submodels = submodels_table

\* a create was refused for its id alone: the id is taken, the id_short free
C1_Witness ==
    /\ ret.op = "create_aas"
    /\ ~ret.ok
    /\ ret.err = "UNIQUE constraint failed: aas.id"
    /\ submodels_table # {}

\* the submodels of every persisted shell, as its payload holds them
PersistedSubmodelIds(table) ==
    UNION {{x.submodels[k].id : k \in DOMAIN x.submodels} : x \in LoadedShells(table)}

\* a valid shell's submodels have ids of their own: no two of them share one,
\* and no persisted shell holds a submodel with one of them
OwnSubmodels(table, aas) ==
    /\ \A k1, k2 \in DOMAIN aas.submodels :
          aas.submodels[k1].id = aas.submodels[k2].id => k1 = k2
    /\ \A k \in DOMAIN aas.submodels :
          aas.submodels[k].id \notin PersistedSubmodelIds(table)

\* C2: create of a valid shell whose id and id_short are both absent returns
\* true and persists the shell and all of its submodels.
C2_FreshCreateSucceeds ==
    \A aas \in CallerShells(aas_table, now) :
        (~Taken(aas_table, aas) /\ OwnSubmodels(aas_table, aas)) =>
            LET r == create_aas(aas_table, submodels_table, aas)
            IN  /\ r.ok
                /\ get_aas(r.aas, aas.id) = Some(aas)
                /\ SubmodelRows(aas) \subseteq r.submodels

\* C3: get(id) returns the shell written by the last successful create or
\* update for that id, equal in every field, and None exactly when no create
\* for that id has succeeded.
C3_GetReturnsLastWritten ==
    \A id \in Ids : get_aas(aas_table, id) = written[id]

\* both shells persisted, the robot last written by an update, with a submodel
\* holding a string, an int, a float and a bool, the conveyor with no submodel
C3_Witness ==
    /\ ret.op = "update_aas" /\ ret.ok
    /\ written[ID_R47] # None /\ written[ID_L01] # None
    /\ written[ID_L01][1].submodels = <<>>
    /\ "Operation" \in DOMAIN written[ID_R47][1].submodels
    /\ {e.value.kind : e \in Range2(written[ID_R47][1].submodels["Operation"].elements)}
          = {"str", "int", "float", "bool"}
    /\ written[ID_R47][1].last_modified > written[ID_R47][1].created

\* the row of the aas table with this id (there is one)
RowOf(table, id) == table[CHOOSE i \in DOMAIN table : table[i].id = id]

HasRow(table, id) == \E i \in DOMAIN table : table[i].id = id

\* C4: update of a shell with no persisted id returns false and leaves the
\* store unchanged; a successful update returns true, the row's indexed
\* columns and payload are those of the given shell, and the persisted
\* last_modified is the time of the write.
C4_UpdateWritesGivenShell ==
    \A aas \in CallerShells(aas_table, now) :
        LET r == update_aas(aas_table, aas, now)
            given == [aas EXCEPT !.last_modified = now]
        IN  /\ ~HasRow(aas_table, aas.id) => (~r.ok /\ r.aas = aas_table)
            /\ r.ok =>
                 LET row == RowOf(r.aas, aas.id)
                 IN  /\ HasRow(aas_table, aas.id)
                     /\ row.id_short = given.id_short
                     /\ row.global_asset_id = given.global_asset_id
                     /\ row.description = given.description
                     /\ row.status = AssetStatusValue(given.status)
                     /\ fromisoformat(row.created) = given.created
                     /\ fromisoformat(row.last_modified) = now
                     /\ LoadShell(row.data) = given

\* created and last_modified of a persisted row, in its columns and in its
\* payload
RowCreated(row) == fromisoformat(row.created)
RowModified(row) == fromisoformat(row.last_modified)
DataCreated(row) == fromisoformat(row.data.created)
DataModified(row) == fromisoformat(row.data.last_modified)

\* C5: through add_submodel, update_status, update_aas and
\* update_asset_status on one shell, under a clock that does not go back, the
\* shell's last_modified never decreases and is at least created, and created
\* never changes; the same holds of the shell's persisted row, in its columns
\* and in its payload.
C5_MonotonicTimestamps ==
    [][ /\ shell'[1].created = shell[1].created
        /\ shell'[1].last_modified >= shell[1].last_modified
        /\ shell'[1].last_modified >= shell'[1].created
        /\ \A i \in DOMAIN aas_table' :
              /\ RowModified(aas_table'[i]) >= RowCreated(aas_table'[i])
              /\ DataModified(aas_table'[i]) >= DataCreated(aas_table'[i])
        /\ \A i \in DOMAIN aas_table :
              /\ RowCreated(aas_table'[i]) = RowCreated(aas_table[i])
              /\ DataCreated(aas_table'[i]) = DataCreated(aas_table[i])
              /\ RowModified(aas_table'[i]) >= RowModified(aas_table[i])
              /\ DataModified(aas_table'[i]) >= DataModified(aas_table[i])
      ]_vars

\* the robot, constructed active at time 0, was given a submodel and the
\* status maintenance and then updated in the repository at a later time
C5_Witness ==
    /\ ret.op = "update_aas" /\ ret.ok
    /\ shell[1].id = ID_R47
    /\ shell[1].submodels # <<>>
    /\ shell[1].status = "MAINTENANCE"
    /\ shell[1].last_modified > shell[1].created + 1
    /\ \E i \in DOMAIN aas_table :
          /\ aas_table[i].id = shell[1].id
          /\ DataModified(aas_table[i]) = shell[1].last_modified
          /\ RowCreated(aas_table[i]) = shell[1].created

\* the status value a token spells when letter case is ignored ("" when none)
SpelledStatus(token) ==
    CASE token \in {"active", "ACTIVE", "Active"} -> "active"
      [] token \in {"maintenance", "MAINTENANCE", "Maintenance"} -> "maintenance"
      [] token \in {"offline", "OFFLINE", "Offline"} -> "offline"
      [] token \in {"error", "ERROR", "Error"} -> "error"
      [] OTHER -> ""

HasIdShort(table, id_short) == \E i \in DOMAIN table : table[i].id_short = id_short

RowOfIdShort(table, id_short) ==
    table[CHOOSE i \in DOMAIN table : table[i].id_short = id_short]

\* C6: update_asset_status with a token that spells none of the four status
\* values returns false and writes nothing; with a token that spells one, in
\* any letter case, and the id_short of a persisted shell it returns true and
\* the persisted status, column and payload, is that value; every persisted
\* status is one of the four values.
C6_StatusTokenValidated ==
    /\ \A asset_id \in Identities, token \in Tokens :
          LET r == update_asset_status(aas_table, asset_id, token, now)
          IN  /\ SpelledStatus(token) = "" => (~r.ok /\ r.aas = aas_table)
              /\ (SpelledStatus(token) # "" /\ HasIdShort(aas_table, asset_id)) =>
                    /\ r.ok
                    /\ RowOfIdShort(r.aas, asset_id).status = SpelledStatus(token)
                    /\ RowOfIdShort(r.aas, asset_id).data.status = SpelledStatus(token)
    /\ \A i \in DOMAIN aas_table :
          /\ aas_table[i].status \in StatusValues
          /\ aas_table[i].data.status \in StatusValues

\* a call with an invalid token found its shell and ended in the ValueError
C6_Witness ==
    /\ ret.op = "update_asset_status"
    /\ ~ret.ok
    /\ ret.err = "ValueError"

\* the table with every last_modified, column and payload, blanked
WithoutModified(table) ==
    [i \in DOMAIN table |->
        [table[i] EXCEPT !.last_modified = isoformat(0),
                         !.data.last_modified = isoformat(0)]]

\* C7: for every persisted shell, update_asset_status(id_short, "active")
\* called twice leaves the persisted state that one call leaves, up to
\* last_modified, and last_modified does not decrease at either call.
C7_StatusSetIdempotent ==
    \A i \in DOMAIN aas_table : \A later \in {now, now + 1} :
        LET x == aas_table[i].id_short
            once == update_asset_status(aas_table, x, "active", now)
            twice == update_asset_status(once.aas, x, "active", later)
        IN  /\ once.ok /\ twice.ok
            /\ WithoutModified(twice.aas) = WithoutModified(once.aas)
            /\ RowOfIdShort(once.aas, x).status = "active"
            /\ RowModified(once.aas[i]) >= RowModified(aas_table[i])
            /\ RowModified(twice.aas[i]) >= RowModified(once.aas[i])
            /\ DataModified(once.aas[i]) >= DataModified(aas_table[i])
            /\ DataModified(twice.aas[i]) >= DataModified(once.aas[i])

\* a call succeeded after the creation time of a shell that has a submodel,
\* and that shell is active with the time of the call as its last_modified
C7_Witness ==
    /\ ret.op = "update_asset_status" /\ ret.ok
    /\ now > 0
    /\ \E i \in DOMAIN aas_table :
          /\ aas_table[i].status = "active"
          /\ RowModified(aas_table[i]) = now
          /\ RowCreated(aas_table[i]) < now
          /\ aas_table[i].data.submodels # <<>>

\* the number an element value stands for, where it stands for one
IsNumber(v) == v.kind \in {"int", "float"} \/ (v.kind = "str" /\ v.s \in {"80"})
NumberOf(v) == IF v.kind = "str" THEN 80 ELSE v.n

\* whether the shell has the element and its value is a number in the set
ElementIn(aas, sm, e, numbers) ==
    /\ sm \in DOMAIN aas.submodels
    /\ e \in DOMAIN aas.submodels[sm].elements
    /\ IsNumber(aas.submodels[sm].elements[e].value)
    /\ NumberOf(aas.submodels[sm].elements[e].value) \in numbers

\* the (type, severity) pairs the three rules give for one shell, in the
\* order of the rules
RuleAlerts(aas) ==
    LET Over2000 == {n \in Int : n > 2000}
        Over2500 == {n \in Int : n > 2500}
        Under85 == {n \in Int : n < 85}
        Over60 == {n \in Int : n > 60}
    IN  (IF ElementIn(aas, "Maintenance", "ServiceHours", Over2000)
         THEN <<[asset |-> aas.id_short, type |-> "maintenance",
                 severity |-> IF ElementIn(aas, "Maintenance", "ServiceHours", Over2500)
                              THEN "high" ELSE "medium"]>>
         ELSE <<>>)
        \o (IF ElementIn(aas, "Operation", "Efficiency", Under85)
            THEN <<[asset |-> aas.id_short, type |-> "performance", severity |-> "medium"]>>
            ELSE <<>>)
        \o (IF ElementIn(aas, "Operation", "Temperature", Over60)
            THEN <<[asset |-> aas.id_short, type |-> "temperature", severity |-> "high"]>>
            ELSE <<>>)

\* an alert without the value its message quotes
AlertEntry(a) == [asset |-> a.asset, type |-> a.type, severity |-> a.severity]

\* C8: get_maintenance_alerts returns, for each persisted shell in list
\* order, one entry per rule that fires and none otherwise: maintenance iff
\* ServiceHours > 2000 (high iff > 2500, else medium), performance (medium)
\* iff Efficiency < 85, temperature (high) iff Temperature > 60.
C8_AlertsFollowRules ==
    ret.op = "get_maintenance_alerts" =>
        [i \in DOMAIN ret.out |-> AlertEntry(ret.out[i])]
            = Flatten([i \in DOMAIN aas_table |-> RuleAlerts(LoadShell(aas_table[i].data))])

\* the number of persisted shells with this status value
StatusCount(table, value) == Cardinality({i \in DOMAIN table : table[i].status = value})

\* the per-status counts a metrics record reports, by status value
ReportedCount(out, value) ==
    CASE value = "active" /\ "active_assets" \in DOMAIN out -> <<out.active_assets>>
      [] value = "maintenance" /\ "maintenance_assets" \in DOMAIN out ->
            <<out.maintenance_assets>>
      [] value = "offline" /\ "offline_assets" \in DOMAIN out -> <<out.offline_assets>>
      [] value = "error" /\ "error_assets" \in DOMAIN out -> <<out.error_assets>>
      [] OTHER -> <<>>

\* C9: get_system_metrics reports for each of the four status values the
\* number of persisted shells with it, the counts summing to the total, and
\* an average efficiency of 0 when no shell has Operation/Efficiency.  (As
\* written here a count that is reported is right and the reported counts sum
\* to the total, which every shell's status being counted implies.)
C9_MetricsCountEveryStatus ==
    (ret.op = "get_system_metrics" /\ ret.ok) =>
        /\ \A value \in StatusValues :
              ReportedCount(ret.out, value) \in {<<>>, <<StatusCount(aas_table, value)>>}
        /\ SumSeq(Flatten([i \in 1..4 |->
              ReportedCount(ret.out, <<"active", "maintenance", "offline", "error">>[i])]))
              = ret.out.total_assets
        /\ ret.out.total_assets = Len(aas_table)
        /\ (\A i \in DOMAIN aas_table :
               ~HasElement(LoadShell(aas_table[i].data), "Operation", "Efficiency"))
              => ret.out.average_efficiency = 0

\* whether the identity names this shell: its id_short, or an end of its id
Names(identity, aas) ==
    \/ aas.id_short = identity
    \/ \E n \in 0..Len(aas.id) :
          identity = [k \in 1..n |-> aas.id[Len(aas.id) - n + k]]

\* whether details is the full projection of the shell
ProjectionOf(details, aas) ==
    /\ details.asset_id = aas.id
    /\ details.status = AssetStatusValue(aas.status)
    /\ DOMAIN details.submodels = DOMAIN aas.submodels
    /\ \A sm \in DOMAIN aas.submodels :
          /\ DOMAIN details.submodels[sm] = DOMAIN aas.submodels[sm].elements
          /\ \A e \in DOMAIN aas.submodels[sm].elements :
                LET d == details.submodels[sm][e]
                    element == aas.submodels[sm].elements[e]
                IN  /\ d.value = element.value
                    /\ d.type = element.value_type
                    /\ d.description = element.description
                    /\ d.last_updated = strftime(element.last_updated)

DetailsFor(table, identity, out) ==
    IF \E x \in LoadedShells(table) : Names(identity, x)
    THEN /\ out # None
         /\ \E x \in LoadedShells(table) : Names(identity, x) /\ ProjectionOf(out[1], x)
    ELSE out = None

\* C10: get_asset_details returns None exactly when no persisted shell has
\* the identity as its id_short or as an end of its id; otherwise the full
\* projection of such a shell.
C10_DetailMatchesIdShortOrIdSuffix ==
    /\ \A identity \in DetailIdentities :
          DetailsFor(aas_table, identity, get_asset_details(aas_table, identity))
    /\ ret.op = "get_asset_details" => DetailsFor(aas_table, ret.arg, ret.out)

\* details were returned for "R47", which is the end of the robot's id and
\* the id_short of no shell, with the robot's two submodels
C10_Witness ==
    /\ ret.op = "get_asset_details"
    /\ ret.arg = <<"R47">>
    /\ ret.out # None
    /\ \A i \in DOMAIN aas_table : aas_table[i].id_short # <<"R47">>
    /\ Len(aas_table) = 2
    /\ ret.out[1].asset_id = ID_R47
    /\ DOMAIN ret.out[1].submodels = {"Maintenance", "Operation"}

\* the reading the summary gives for an element: "N/A" when the shell lacks it
SummaryOf(row, aas) ==
    /\ ~HasElement(aas, "Maintenance", "LastService") => row.Last_Maintenance = "N/A"
    /\ ~HasElement(aas, "Maintenance", "NextService") => row.Next_Service = "N/A"
    /\ ~HasElement(aas, "Operation", "Efficiency") => row.Efficiency.text = StrVal("N/A")

\* C11: whatever kinds of value the persisted elements hold,
\* get_assets_summary, get_system_metrics and get_maintenance_alerts return a
\* result and never end in an error; a missing submodel or element gives
\* "N/A" in the summary.
C11_ReadCallsNeverRaise ==
    /\ ret.op \in {"get_assets_summary", "get_system_metrics", "get_maintenance_alerts"}
          => ret.ok
    /\ (ret.op = "get_assets_summary" /\ ret.ok) =>
          /\ Len(ret.out) = Len(aas_table)
          /\ \A i \in DOMAIN ret.out :
                SummaryOf(ret.out[i], LoadShell(aas_table[i].data))

\* the rows of the submodels table that belong to the shell with this id
RowsOf(rows, aas_id) == {r \in rows : r.aas_id = aas_id}

\* the rows that the submodels in a shell's persisted payload call for
PayloadRows(row) ==
    LET aas == LoadShell(row.data)
    IN  {[id |-> aas.submodels[k].id,
          aas_id |-> aas.id,
          id_short |-> aas.submodels[k].id_short,
          semantic_id |-> aas.submodels[k].semantic_id,
          description |-> aas.submodels[k].description,
          data |-> DumpSubmodel(aas.submodels[k])] : k \in DOMAIN aas.submodels}

\* C12: for every persisted shell, the submodels rows with its id as aas_id
\* are, in id, id_short, semantic_id, description and payload, the submodels
\* of the shell's persisted payload.
C12_SubmodelRowsMatchPayload ==
    \A i \in DOMAIN aas_table :
        RowsOf(submodels_table, aas_table[i].id) = PayloadRows(aas_table[i])

\* a shell without its last_modified
WithoutStamp(x) == [x EXCEPT !.last_modified = 0]

\* C13: when two callers' list_all_aas and update_aas steps interleave, every
\* write returns true and is applied whole: the persisted record of the id,
\* payload and columns, is the entire shell that caller wrote (the shell it
\* read with its own change and the time of the write), whatever the other
\* caller wrote in between, and no other record changes.
C13_LastWriterWins ==
    [][ ret'.op \in {"update_asset_status", "update_aas"} =>
          LET c == ret'.arg[1]
              mine == shell[c][1]
              mineWrites == IF ret'.op = "update_aas" THEN UpdateWrites(mine, now)
                            ELSE StatusWrites(mine, now)
              got == get_aas(aas_table', mine.id)
          IN  /\ ret'.ok
              /\ got # None
              /\ got[1].last_modified = now
              /\ WithoutStamp(got[1]) \in {WithoutStamp(x) : x \in mineWrites}
              /\ Len(aas_table') = Len(aas_table)
              /\ \A i \in DOMAIN aas_table :
                    IF aas_table[i].id = mine.id
                    THEN /\ aas_table'[i].id_short = got[1].id_short
                         /\ aas_table'[i].global_asset_id = got[1].global_asset_id
                         /\ aas_table'[i].description = got[1].description
                         /\ aas_table'[i].status = AssetStatusValue(got[1].status)
                         /\ fromisoformat(aas_table'[i].created) = got[1].created
                         /\ fromisoformat(aas_table'[i].last_modified) = now
                    ELSE aas_table'[i] = aas_table[i]
      ]_vars

\* caller 2 wrote the robot with a submodel added to a copy it read before
\* another write changed the record: its write returned true and the record
\* has its submodel and the status of its copy, not the status written in
\* between
C13_Witness ==
    /\ ret.op = "update_aas" /\ ret.ok
    /\ ret.arg = <<2>>
    /\ ret.out = <<"stale">>
    /\ written[ID_R47] # None
    /\ written[ID_R47][1].status = "ACTIVE"
    /\ written[ID_R47][1].submodels # <<>>
    /\ get_aas(aas_table, ID_R47) = written[ID_R47]
    /\ \E i \in DOMAIN aas_table :
          aas_table[i].id = ID_R47 /\ aas_table[i].status = "active"

\* C14: in every state reached by create and update calls, successful or
\* failed, the columns id, id_short, global_asset_id, description, status,
\* created and last_modified of every aas row equal the same-named fields of
\* the shell in the row's payload.
C14_ColumnsMatchPayload ==
    \A i \in DOMAIN aas_table :
        LET row == aas_table[i]
            aas == LoadShell(row.data)
        IN  /\ row.id = aas.id
            /\ row.id_short = aas.id_short
            /\ row.global_asset_id = aas.global_asset_id
            /\ row.description = aas.description
            /\ row.status = AssetStatusValue(aas.status)
            /\ fromisoformat(row.created) = aas.created
            /\ fromisoformat(row.last_modified) = aas.last_modified

\* an aas row without its status and last_modified, column and payload
WithoutStatus(row) ==
    [row EXCEPT !.status = "", !.last_modified = isoformat(0),
                !.data.status = "", !.data.last_modified = isoformat(0)]

\* C15: get_assets_summary, get_asset_details, get_system_metrics and
\* get_maintenance_alerts leave both tables as they were; update_asset_status
\* returns false when no shell has the identity as its id_short (a match by
\* the end of the id does not count), and when it returns true only the status
\* and last_modified of the shell with that id_short change: its id, id_short,
\* created, submodels and elements, every other row and the submodels table
\* stay as they were.
C15_AnalyticsFrame ==
    [][ /\ ret'.op \in {"get_assets_summary", "get_asset_details",
                        "get_system_metrics", "get_maintenance_alerts"}
             => (aas_table' = aas_table /\ submodels_table' = submodels_table)
        /\ ret'.op = "update_asset_status" =>
              /\ submodels_table' = submodels_table
              /\ Len(aas_table') = Len(aas_table)
              /\ ~HasIdShort(aas_table, ret'.arg) => ~ret'.ok
              /\ \A i \in DOMAIN aas_table :
                    IF ret'.ok /\ aas_table[i].id_short = ret'.arg
                    THEN WithoutStatus(aas_table'[i]) = WithoutStatus(aas_table[i])
                    ELSE aas_table'[i] = aas_table[i]
      ]_vars

\* update_asset_status("L01", ...) returned true at a later time with two
\* shells persisted: the one with id_short "L01" (its id ends in R47) is now
\* active with the time of the call, and the conveyor, whose id ends in L01,
\* is offline and unmodified
C15_Witness ==
    /\ ret.op = "update_asset_status" /\ ret.ok
    /\ ret.arg = <<"L01">>
    /\ now > 0
    /\ Len(aas_table) = 2
    /\ \E i, j \in DOMAIN aas_table :
          /\ aas_table[i].id_short = <<"L01">>
          /\ aas_table[i].id = ID_R47
          /\ aas_table[i].status = "active"
          /\ RowModified(aas_table[i]) = now
          /\ aas_table[i].data.submodels # <<>>
          /\ aas_table[j].id = ID_L01
          /\ aas_table[j].status = "offline"
          /\ RowModified(aas_table[j]) = 0

====
